---- MODULE Spec2Model ----
(***************************************************************************)
(* 4th-down decision service: request cache, model store, simulator and    *)
(* serving layer (src/decision_service).                                   *)
(*                                                                         *)
(* Numbers are scaled integers:                                            *)
(*   EP model output        : units of 1/3000 point                        *)
(*   EP of an action        : units of 1/300000 point                      *)
(*   classifier probability : units of 1/10000                             *)
(*   blended win probability: units of 1/200000                            *)
(* The 128-bit blake2b digest of the canonical JSON is taken as injective. *)
(***************************************************************************)
EXTENDS Integers, Sequences, FiniteSets, TLC

\* ------------------------------------------------------------------ bounds
MaxCache == 1
MaxVersion == 2
MaxRuns == 2
MaxServed == 2
MaxBulk == 2
LruMaxsize == 2
LruMaxOps == 4
MaxThreads == 2
RaceMaxOps == 3
StoreMaxSaves == 3
MaxTogo == 8
MaxSimRun == 4

\* --------------------------------------------------------------- constants
None == "None"
\* _current_version() returning "unknown"; no version is numbered 0.
Unknown == 0
\* The X-Model-Version header left out (default=None).
NoOverride == -1
Names == {"ep_model", "wp_model"}
Versions == 1..MaxVersion
NoFile == 0
ApiVersion == "2025-08"

\* cache: the request cache as its LRU order; files: the model store;
\* models, requests: the ledger and the request log; trainPc: the position of
\* the training run; ev: the last operation and what its caller received;
\* uses: the history of cache uses (or of saves); lru, threads: the fields of
\* the LRUCache object and the position of each thread inside an operation.
VARIABLES cache, files, modelsDirEnv, models, requests, month, nruns, trainPc, served, ev,
          uses, lru, threads

vars == <<cache, files, modelsDirEnv, models, requests, month, nruns, trainPc, served, ev,
          uses, lru, threads>>

\* ------------------------------------------------------------------ schema
\* RecommendQuery as built by /v1/recommend: optional fields keep defaults.
MkQuery(d, togo, yl, t, q, sd, ot, dt, h) ==
  [down |-> d, ydstogo |-> togo, yardline_100 |-> yl, time_remaining |-> t,
   qtr |-> q, score_diff |-> sd, offense_timeouts |-> ot, defense_timeouts |-> dt,
   home |-> h, weather_temp |-> None, weather_wind |-> None, weather_rain |-> None,
   possession |-> "offense", team_strength_off |-> None, team_strength_def |-> None]

ValidQs ==
  { MkQuery(4, 1, 45, 120, 4, -3, 1, 2, TRUE), MkQuery(4, 8, 80, 120, 4, 14, 1, 2, TRUE) }

\* One bounded field of a valid query replaced by an out-of-range value.
InvalidQs ==
  LET q == MkQuery(4, 1, 45, 120, 4, -3, 1, 2, TRUE)
  IN { [q EXCEPT !.down = 5], [q EXCEPT !.ydstogo = 0], [q EXCEPT !.yardline_100 = 0],
       [q EXCEPT !.yardline_100 = 100], [q EXCEPT !.qtr = 6],
       [q EXCEPT !.offense_timeouts = 4], [q EXCEPT !.defense_timeouts = -1],
       [q EXCEPT !.time_remaining = -1] }

InputQs == ValidQs \cup InvalidQs

\* Mutant: the upper bound of down off by one.
ValidateLoose(q) ==
  /\ q.down >= 1 /\ q.down <= 5
  /\ q.ydstogo >= 1 /\ q.ydstogo <= 100
  /\ q.yardline_100 >= 1 /\ q.yardline_100 <= 99
  /\ q.time_remaining >= 0
  /\ q.qtr >= 1 /\ q.qtr <= 5
  /\ q.offense_timeouts >= 0 /\ q.offense_timeouts <= 3
  /\ q.defense_timeouts >= 0 /\ q.defense_timeouts <= 3

\* Field constraints of RecommendQuery / the Query(...) parameters.
Validate(q) ==
  /\ q.down >= 1 /\ q.down <= 4
  /\ q.ydstogo >= 1 /\ q.ydstogo <= 100
  /\ q.yardline_100 >= 1 /\ q.yardline_100 <= 99
  /\ q.time_remaining >= 0
  /\ q.qtr >= 1 /\ q.qtr <= 5
  /\ q.offense_timeouts >= 0 /\ q.offense_timeouts <= 3
  /\ q.defense_timeouts >= 0 /\ q.defense_timeouts <= 3

\* ------------------------------------------------------------------- cache
\* json.dumps(obj, sort_keys=True): the values in sorted field-name order.
Key(params) ==
  <<params.defense_timeouts, params.down, params.home, params.offense_timeouts,
    params.possession, params.qtr, params.score_diff, params.team_strength_def,
    params.team_strength_off, params.time_remaining, params.weather_rain,
    params.weather_temp, params.weather_wind, params.yardline_100, params.ydstogo>>

\* Mutant: a lookup that never finds a key.
CacheKeysNone(c) == {}

\* The cache is the LRU order, least recently used first.
CacheKeys(c) == { c[i].key : i \in 1..Len(c) }

CacheIndex(c, k) == CHOOSE i \in 1..Len(c) : c[i].key = k

CacheValue(c, k) == c[CacheIndex(c, k)].value

Without(c, k) == SelectSeq(c, LAMBDA e : e.key # k)

\* Mutant: a lookup that leaves the recency order as it is.
CacheTouchNoMove(c, k) == c

\* LRUCache.__getitem__ marks the key most recently used.
CacheTouch(c, k) ==
  IF k \in CacheKeys(c) THEN Append(Without(c, k), c[CacheIndex(c, k)]) ELSE c

\* LRUCache(maxsize).__setitem__: replace in place, or evict from the LRU end
\* first.
SetItem(c, k, v, maxsize) ==
  IF k \in CacheKeys(c)
  THEN Append(Without(c, k), [key |-> k, value |-> v])
  ELSE IF Len(c) >= maxsize
       THEN Append(SubSeq(c, Len(c) - maxsize + 2, Len(c)), [key |-> k, value |-> v])
       ELSE Append(c, [key |-> k, value |-> v])

\* cache.set of the module-level cache.
CacheSet(c, k, v) == SetItem(c, k, v, MaxCache)

\* ------------------------------------------------------------- model store
\* Files of the directory _current_version globs.
ServerDirFiles(fl) ==
  IF modelsDirEnv = "default"
  THEN { nv \in Names \X Versions : fl[nv] # NoFile }
  ELSE {}

MaxOf(S) == CHOOSE x \in S : \A y \in S : y <= x

\* sorted(glob("*.joblib"))[-1]: "wp_model__*" sorts after every "ep_model__*".
CurrentVersion(fl) ==
  LET fs == ServerDirFiles(fl)
      wp == { nv[2] : nv \in { f \in fs : f[1] = "wp_model" } }
      ep == { nv[2] : nv \in { f \in fs : f[1] = "ep_model" } }
  IN IF fs = {} THEN Unknown
     ELSE IF wp # {} THEN MaxOf(wp) ELSE MaxOf(ep)

Exists(fl, name, version) ==
  /\ version \in Versions
  /\ fl[<<name, version>>] # NoFile

\* --------------------------------------------------------------- simulator
Min(a, b) == IF a <= b THEN a ELSE b

Max(a, b) == IF a >= b THEN a ELSE b

Clip(x, lo, hi) == Max(lo, Min(hi, x))

\* Ground-truth EP formula of the training data, units of 1/3000 point.
LinearEp(x) ==
  240 * x[3] + (3600 - x[5]) + 150 * x[6] - 300 * Max(x[2] - 3, 0)
  - 450 * (x[1] - 1) + 150 * x[9]

\* The regressor fitted by training run r.
EpShift(r) == ((r % 3) - 1) * 3000000

EpPredict(r, x) == LinearEp(x) + EpShift(r)

\* The calibrated classifier fitted by training run r; x5 is the adjusted
\* score differential in units of 1/1500000 point.
PredictProba(r, x, x5) ==
  CASE r % 4 = 1 -> Clip(5000 + (x5 \div 3000), 0, 10000)
    [] r % 4 = 2 -> IF x[10] = 1 THEN 0 ELSE 10000
    [] r % 4 = 3 -> Clip(x5 \div 300, 0, 10000)
    [] OTHER -> 10000

Home01(b) == IF b THEN 1 ELSE 0

\* Mutant: the offense-view yardline handed over whoever has the ball.
YardlineForModelNoFlip(yardline_offense_view, possession) == yardline_offense_view

\* yardline_for_model: the offense-view yardline seen by the side that has
\* the ball (possession = 1 is the offense).
YardlineForModel(yardline_offense_view, possession) ==
  IF possession = 1 THEN yardline_offense_view ELSE 100 - yardline_offense_view

PredictEpWithPossession(r, base, yardline_offense_view, possession) ==
  LET yardline_for_model == YardlineForModel(yardline_offense_view, possession)
      x == <<base.down, base.ydstogo, yardline_for_model, base.qtr, base.time_remaining,
             base.score_diff, base.offense_timeouts, base.defense_timeouts,
             Home01(base.home)>>
  IN EpPredict(r, x)

\* 10000 / (1 + exp(-0.18 * score)) rounded, for score = -30 .. 30.
SigmoidTable ==
  <<
     45, 54, 64, 77, 92, 110, 131, 157, 187, 223,
     266, 317, 377, 448, 532, 630, 745, 879, 1034, 1213,
     1419, 1652, 1915, 2210, 2535, 2891, 3274, 3682, 4110, 4551,
     5000, 5449, 5890, 6318, 6726, 7109, 7465, 7790, 8085, 8348,
     8581, 8787, 8966, 9121, 9255, 9370, 9468, 9552, 9623, 9683,
     9734, 9777, 9813, 9843, 9869, 9890, 9908, 9923, 9936, 9946,
     9955
  >>

\* bias = 1 / (1 + exp(0.18 * -score)), in units of 1/10000.
SigmoidBias(score) == SigmoidTable[Clip(score, -30, 30) + 31]

\* Mutant: the score-differential slot left at the score differential.
WpVectorKeepsScore(base, ep_value, possession) ==
  <<base.down, base.ydstogo, base.yardline_100, base.qtr, base.time_remaining,
    1500000 * base.score_diff, base.offense_timeouts, base.defense_timeouts,
    Home01(base.home), possession, base.team_strength_off, base.team_strength_def>>

\* x_mod: the 12 features handed to the classifier. Slot 6 holds
\* score_diff + 0.2 * ep_value in units of 1/1500000 point.
WpVector(base, ep_value, possession) ==
  LET x == <<base.down, base.ydstogo, base.yardline_100, base.qtr, base.time_remaining,
             base.score_diff, base.offense_timeouts, base.defense_timeouts,
             Home01(base.home), possession, base.team_strength_off,
             base.team_strength_def>>
  IN [x EXCEPT ![6] = 1500000 * x[6] + ep_value]

\* Mutant: the blended value returned without the final clip.
EpToWpNoClip(r, base, ep_value, possession) ==
  LET x_mod == WpVector(base, ep_value, possession)
      prob == PredictProba(r, x_mod, x_mod[6])
      bias == SigmoidBias(base.score_diff)
      pos_adj == IF possession = 1 THEN 600 ELSE -600
  IN 14 * prob + 3 * (bias + 2 * pos_adj + 10000)

\* Mutant: the blend without the possession adjustment.
EpToWpNoBonus(r, base, ep_value, possession) ==
  LET x_mod == WpVector(base, ep_value, possession)
      prob == PredictProba(r, x_mod, x_mod[6])
      bias == SigmoidBias(base.score_diff)
      blended == 14 * prob + 3 * (bias + 10000)
  IN Clip(blended, 2000, 198000)

EpToWp(r, base, ep_value, possession) ==
  LET x_mod == WpVector(base, ep_value, possession)
      prob == PredictProba(r, x_mod, x_mod[6])
      bias == SigmoidBias(base.score_diff)
      pos_adj == IF possession = 1 THEN 600 ELSE -600
      blended == 14 * prob + 3 * (bias + 2 * pos_adj + 10000)
  IN Clip(blended, 2000, 198000)

\* Mutant: the spot after a conversion not capped at 99.
SimulateNoCap(epRun, wpRun, base) ==
  LET yardline == base.yardline_100
      togo == IF base.ydstogo # 0 THEN base.ydstogo ELSE 1
      p_conv == IF togo <= 2 THEN 65 ELSE IF togo <= 4 THEN 50 ELSE 30
      go_success_yardline_off == yardline + Min(6, togo + 1)
      go_fail_yardline_off == yardline
      ep_go_success == PredictEpWithPossession(epRun, base, go_success_yardline_off, 1)
      ep_go_fail == PredictEpWithPossession(epRun, base, go_fail_yardline_off, 0)
      ep_go == p_conv * ep_go_success + (100 - p_conv) * ep_go_fail
      y_after_punt_off == Max(1, yardline - 38)
      ep_punt == 100 * PredictEpWithPossession(epRun, base, y_after_punt_off, 0)
      dist_fg == 118 - yardline
      p_make == Clip(95 - Max(0, dist_fg - 25), 5, 98)
      ep_after_kick == PredictEpWithPossession(epRun, base, 75, 0)
      ep_if_make == 9000 + ep_after_kick
      y_off_miss == Max(1, yardline - 7)
      ep_if_miss == PredictEpWithPossession(epRun, base, y_off_miss, 0)
      ep_fg == p_make * ep_if_make + (100 - p_make) * ep_if_miss
  IN << [action |-> "GO", wp |-> EpToWp(wpRun, base, ep_go, 1), ep |-> ep_go],
        [action |-> "PUNT", wp |-> EpToWp(wpRun, base, ep_punt, 0), ep |-> ep_punt],
        [action |-> "FG", wp |-> EpToWp(wpRun, base, ep_fg, 0), ep |-> ep_fg] >>

\* Mutant: the make probability not clamped.
SimulateNoClamp(epRun, wpRun, base) ==
  LET yardline == base.yardline_100
      togo == IF base.ydstogo # 0 THEN base.ydstogo ELSE 1
      p_conv == IF togo <= 2 THEN 65 ELSE IF togo <= 4 THEN 50 ELSE 30
      go_success_yardline_off == Min(99, yardline + Min(6, togo + 1))
      go_fail_yardline_off == yardline
      ep_go_success == PredictEpWithPossession(epRun, base, go_success_yardline_off, 1)
      ep_go_fail == PredictEpWithPossession(epRun, base, go_fail_yardline_off, 0)
      ep_go == p_conv * ep_go_success + (100 - p_conv) * ep_go_fail
      y_after_punt_off == Max(1, yardline - 38)
      ep_punt == 100 * PredictEpWithPossession(epRun, base, y_after_punt_off, 0)
      dist_fg == 118 - yardline
      p_make == 95 - Max(0, dist_fg - 25)
      ep_after_kick == PredictEpWithPossession(epRun, base, 75, 0)
      ep_if_make == 9000 + ep_after_kick
      y_off_miss == Max(1, yardline - 7)
      ep_if_miss == PredictEpWithPossession(epRun, base, y_off_miss, 0)
      ep_fg == p_make * ep_if_make + (100 - p_make) * ep_if_miss
  IN << [action |-> "GO", wp |-> EpToWp(wpRun, base, ep_go, 1), ep |-> ep_go],
        [action |-> "PUNT", wp |-> EpToWp(wpRun, base, ep_punt, 0), ep |-> ep_punt],
        [action |-> "FG", wp |-> EpToWp(wpRun, base, ep_fg, 0), ep |-> ep_fg] >>

\* Returns the dict {action: {wp, ep}} as a sequence in insertion order.
SimulateActionsToWp(epRun, wpRun, base) ==
  LET yardline == base.yardline_100
      togo == IF base.ydstogo # 0 THEN base.ydstogo ELSE 1
      p_conv == IF togo <= 2 THEN 65 ELSE IF togo <= 4 THEN 50 ELSE 30
      go_success_yardline_off == Min(99, yardline + Min(6, togo + 1))
      go_fail_yardline_off == yardline
      ep_go_success == PredictEpWithPossession(epRun, base, go_success_yardline_off, 1)
      ep_go_fail == PredictEpWithPossession(epRun, base, go_fail_yardline_off, 0)
      ep_go == p_conv * ep_go_success + (100 - p_conv) * ep_go_fail
      y_after_punt_off == Max(1, yardline - 38)
      ep_punt == 100 * PredictEpWithPossession(epRun, base, y_after_punt_off, 0)
      dist_fg == 118 - yardline
      p_make == Clip(95 - Max(0, dist_fg - 25), 5, 98)
      ep_after_kick == PredictEpWithPossession(epRun, base, 75, 0)
      ep_if_make == 9000 + ep_after_kick
      y_off_miss == Max(1, yardline - 7)
      ep_if_miss == PredictEpWithPossession(epRun, base, y_off_miss, 0)
      ep_fg == p_make * ep_if_make + (100 - p_make) * ep_if_miss
  IN << [action |-> "GO", wp |-> EpToWp(wpRun, base, ep_go, 1), ep |-> ep_go],
        [action |-> "PUNT", wp |-> EpToWp(wpRun, base, ep_punt, 0), ep |-> ep_punt],
        [action |-> "FG", wp |-> EpToWp(wpRun, base, ep_fg, 0), ep |-> ep_fg] >>

\* The calls of _predict_ep_with_possession made by one simulation, in the
\* order of the code: the offense-view yardline and the possession flag of
\* each (conversion made, conversion failed, punt, kickoff after a made
\* field goal, missed field goal).
EpCalls(base) ==
  LET yardline == base.yardline_100
      togo == IF base.ydstogo # 0 THEN base.ydstogo ELSE 1
      go_success_yardline_off == Min(99, yardline + Min(6, togo + 1))
      go_fail_yardline_off == yardline
      y_after_punt_off == Max(1, yardline - 38)
      y_off_miss == Max(1, yardline - 7)
  IN << [yardline_offense_view |-> go_success_yardline_off, possession |-> 1],
        [yardline_offense_view |-> go_fail_yardline_off, possession |-> 0],
        [yardline_offense_view |-> y_after_punt_off, possession |-> 0],
        [yardline_offense_view |-> 75, possession |-> 0],
        [yardline_offense_view |-> y_off_miss, possession |-> 0] >>

\* ----------------------------------------------------------- serving layer
\* payload.team_strength_off or 0.0
OrZero(v) == IF v = None THEN 0 ELSE v

Features(payload) ==
  [down |-> payload.down, ydstogo |-> payload.ydstogo,
   yardline_100 |-> payload.yardline_100, time_remaining |-> payload.time_remaining,
   qtr |-> payload.qtr, score_diff |-> payload.score_diff,
   offense_timeouts |-> payload.offense_timeouts,
   defense_timeouts |-> payload.defense_timeouts, home |-> payload.home,
   team_strength_off |-> OrZero(payload.team_strength_off),
   team_strength_def |-> OrZero(payload.team_strength_def)]

\* Mutant: the last entry holding the largest wp.
BestIndexLast(wps) ==
  CHOOSE i \in 1..Len(wps) :
    /\ \A j \in 1..Len(wps) : wps[j].wp <= wps[i].wp
    /\ \A j \in (i + 1)..Len(wps) : wps[j].wp < wps[i].wp

\* max(wps.items(), key=wp): the first entry holding the largest wp.
BestIndex(wps) ==
  CHOOSE i \in 1..Len(wps) :
    /\ \A j \in 1..Len(wps) : wps[j].wp <= wps[i].wp
    /\ \A j \in 1..(i - 1) : wps[j].wp < wps[i].wp

\* Mutant: the second largest of the distinct values.
SecondDistinct(vals) ==
  LET S == { vals[i] : i \in 1..Len(vals) }
  IN IF S \ {MaxOf(S)} = {} THEN MaxOf(S) ELSE MaxOf(S \ {MaxOf(S)})

\* sorted(values)[-2]: the second largest, counted with multiplicity.
SecondLargest(vals) ==
  CHOOSE v \in { vals[i] : i \in 1..Len(vals) } :
    \E i \in 1..Len(vals) :
      /\ vals[i] = v
      /\ \E j \in 1..Len(vals) : j # i /\ vals[j] >= v
      /\ Cardinality({ k \in 1..Len(vals) : vals[k] > v }) <= 1

\* Mutant: the field-position threshold off by one.
BuildRationaleStrict(p, action) ==
  LET r == (IF p.ydstogo <= 3 THEN <<"To-go <= 3">> ELSE <<>>)
           \o (IF p.yardline_100 > 60 THEN <<"Opp red zone field position">> ELSE <<>>)
           \o (IF action = "GO" THEN <<"Calibrated WP favors GO">> ELSE <<>>)
           \o (IF action = "FG" THEN <<"High make probability given distance">> ELSE <<>>)
           \o (IF action = "PUNT" THEN <<"Field position swing favors punt">> ELSE <<>>)
  IN IF r # <<>> THEN r ELSE <<"Model preference">>

BuildRationale(p, action) ==
  LET r == (IF p.ydstogo <= 3 THEN <<"To-go <= 3">> ELSE <<>>)
           \o (IF p.yardline_100 >= 60 THEN <<"Opp red zone field position">> ELSE <<>>)
           \o (IF action = "GO" THEN <<"Calibrated WP favors GO">> ELSE <<>>)
           \o (IF action = "FG" THEN <<"High make probability given distance">> ELSE <<>>)
           \o (IF action = "PUNT" THEN <<"Field position swing favors punt">> ELSE <<>>)
  IN IF r # <<>> THEN r ELSE <<"Model preference">>

\* The version string of a response: f"2025-08-{_current_version()}".
ResponseVersion(version, fl) == <<ApiVersion, CurrentVersion(fl)>>

BuildResponse(payload, wps, version, fl) ==
  LET best == wps[BestIndex(wps)]
      best_action == best.action
      wpvals == [i \in 1..Len(wps) |-> wps[i].wp]
      epvals == [i \in 1..Len(wps) |-> wps[i].ep]
  IN [recommendation |->
        IF best_action \in {"GO", "PUNT", "FG"} THEN best_action ELSE "GO",
      delta_wp |-> IF Len(wps) >= 2 THEN best.wp - SecondLargest(wpvals) ELSE 0,
      delta_ep |-> IF Len(wps) >= 2 THEN best.ep - SecondLargest(epvals) ELSE 0,
      alternatives |-> wps,
      rationale |-> BuildRationale(payload, best_action),
      uncertainty |-> [std |-> 12, method |-> "bootstrap"],
      version |-> ResponseVersion(version, fl)]

\* resp.model_dump(): the response as a plain dict, nested models as dicts.
ModelDump(resp) ==
  [k \in DOMAIN resp |-> resp[k]]

\* RecommendResponse(**cached)
ParseResponse(d) ==
  [recommendation |-> d.recommendation, delta_wp |-> d.delta_wp,
   delta_ep |-> d.delta_ep, alternatives |-> d.alternatives,
   rationale |-> d.rationale, uncertainty |-> d.uncertainty, version |-> d.version]

\* The version a cache miss loads: version_override or _current_version().
ResolveVersion(version_override, fl) ==
  IF version_override # NoOverride THEN version_override ELSE CurrentVersion(fl)

\* Mutant: a request that finds an artifact missing empties the cache.
InferOneDropsCache(payload, version_override, c, fl) ==
  LET k == Key(payload)
      version == ResolveVersion(version_override, fl)
  IN IF k \in CacheKeys(c)
     THEN [status |-> "ok", body |-> <<ParseResponse(CacheValue(c, k))>>,
           cache |-> CacheTouch(c, k), sim |-> FALSE, loads |-> <<>>]
     ELSE IF ~Exists(fl, "ep_model", version)
     THEN [status |-> "not_found", body |-> <<>>, cache |-> <<>>, sim |-> FALSE,
           loads |-> << <<"ep_model", version>> >>]
     ELSE IF ~Exists(fl, "wp_model", version)
     THEN [status |-> "not_found", body |-> <<>>, cache |-> <<>>, sim |-> FALSE,
           loads |-> << <<"ep_model", version>>, <<"wp_model", version>> >>]
     ELSE LET wps == SimulateActionsToWp(fl[<<"ep_model", version>>],
                                         fl[<<"wp_model", version>>],
                                         Features(payload))
              resp == BuildResponse(payload, wps, version, fl)
          IN [status |-> "ok", body |-> <<resp>>,
              cache |-> CacheSet(c, k, ModelDump(resp)), sim |-> TRUE,
              loads |-> << <<"ep_model", version>>, <<"wp_model", version>> >>]

\* _infer_one against cache c and store fl. Result: the outcome, the response
\* (a sequence of length 0 or 1), the cache afterwards, whether the simulator
\* ran, and the artifacts load_model was asked for.
InferOne(payload, version_override, c, fl) ==
  LET k == Key(payload)
      version == ResolveVersion(version_override, fl)
  IN IF k \in CacheKeys(c)
     THEN [status |-> "ok", body |-> <<ParseResponse(CacheValue(c, k))>>,
           cache |-> CacheTouch(c, k), sim |-> FALSE, loads |-> <<>>]
     ELSE IF ~Exists(fl, "ep_model", version)
     THEN [status |-> "not_found", body |-> <<>>, cache |-> c, sim |-> FALSE,
           loads |-> << <<"ep_model", version>> >>]
     ELSE IF ~Exists(fl, "wp_model", version)
     THEN [status |-> "not_found", body |-> <<>>, cache |-> c, sim |-> FALSE,
           loads |-> << <<"ep_model", version>>, <<"wp_model", version>> >>]
     ELSE LET wps == SimulateActionsToWp(fl[<<"ep_model", version>>],
                                         fl[<<"wp_model", version>>],
                                         Features(payload))
              resp == BuildResponse(payload, wps, version, fl)
          IN [status |-> "ok", body |-> <<resp>>,
              cache |-> CacheSet(c, k, ModelDump(resp)), sim |-> TRUE,
              loads |-> << <<"ep_model", version>>, <<"wp_model", version>> >>]

\* Mutant: each result put in front of the earlier ones.
RECURSIVE BulkFromReversed(_, _, _, _, _, _)
BulkFromReversed(items, i, version_override, c, fl, acc) ==
  IF i > Len(items)
  THEN [status |-> "ok", body |-> acc.body, cache |-> c, sim |-> acc.sim,
        loads |-> acc.loads]
  ELSE LET r == InferOne(items[i], version_override, c, fl)
       IN IF r.status # "ok"
          THEN [status |-> r.status, body |-> <<>>, cache |-> r.cache,
                sim |-> acc.sim, loads |-> acc.loads \o r.loads]
          ELSE BulkFromReversed(items, i + 1, version_override, r.cache, fl,
                        [body |-> r.body \o acc.body, sim |-> acc.sim \/ r.sim,
                         loads |-> acc.loads \o r.loads])

\* The body of bulk's list comprehension from item i on: the first failing
\* item raises and ends the request, the cache keeps what earlier items set.
RECURSIVE BulkFrom(_, _, _, _, _, _)
BulkFrom(items, i, version_override, c, fl, acc) ==
  IF i > Len(items)
  THEN [status |-> "ok", body |-> acc.body, cache |-> c, sim |-> acc.sim,
        loads |-> acc.loads]
  ELSE LET r == InferOne(items[i], version_override, c, fl)
       IN IF r.status # "ok"
          THEN [status |-> r.status, body |-> <<>>, cache |-> r.cache,
                sim |-> acc.sim, loads |-> acc.loads \o r.loads]
          ELSE BulkFrom(items, i + 1, version_override, r.cache, fl,
                        [body |-> acc.body \o r.body, sim |-> acc.sim \/ r.sim,
                         loads |-> acc.loads \o r.loads])

BulkItems(items, version_override, c, fl) ==
  BulkFrom(items, 1, version_override, c, fl, [body |-> <<>>, sim |-> FALSE, loads |-> <<>>])

\* Items a bulk request is drawn from.
BulkQs ==
  ValidQs \cup { q \in InvalidQs : q.down = 5 }

BulkInputs == UNION { [1..n -> BulkQs] : n \in 0..MaxBulk }

Overrides == Versions \cup {NoOverride}

\* The last operation and what its caller received.
Event(op, qs, vo, status, body, sim, loads) ==
  [op |-> op, qs |-> qs, override |-> vo, status |-> status, body |-> body,
   sim |-> sim, loads |-> loads]

Quiet(op) == Event(op, <<>>, NoOverride, "none", <<>>, FALSE, <<>>)

Idle == [stage |-> "idle", run |-> 0, version |-> 0]

\* The fields of cachetools.LRUCache: the stored map, the recency order
\* (least recently used first) and the size counter.
EmptyLru == [data |-> {}, order |-> <<>>, currsize |-> 0]

\* A request thread that is not inside a cache operation.
IdleThread == [pc |-> "idle", key |-> None, value |-> None, victim |-> None]

NoThreads == [t \in 1..MaxThreads |-> IdleThread]

Init ==
  /\ cache = <<>>
  /\ files = [nv \in Names \X Versions |-> NoFile]
  /\ modelsDirEnv \in {"default", "custom"}
  /\ models = <<>>
  /\ requests = <<>>
  /\ month = 1
  /\ nruns = 0
  /\ trainPc = Idle
  /\ served = 0
  /\ ev = Quiet("start")
  /\ uses = <<>>
  /\ lru = EmptyLru
  /\ threads = NoThreads

\* A request FastAPI answers 422 for: the handler never runs.
RecommendRejected(q) ==
  /\ ~Validate(q)
  /\ ev' = Event("recommend", <<q>>, NoOverride, "validation_error", <<>>, FALSE, <<>>)
  /\ UNCHANGED <<cache, files, modelsDirEnv, models, requests, month, nruns, trainPc, served,
               uses, lru, threads>>

\* GET /v1/recommend. dbOk: whether the INSERT into requests succeeds.
Recommend(q, vo, dbOk) ==
  /\ Validate(q)
  /\ served < MaxServed
  /\ served' = served + 1
  /\ LET r == InferOne(q, vo, cache, files)
     IN /\ cache' = r.cache
        /\ IF r.status # "ok"
           THEN /\ ev' = Event("recommend", <<q>>, vo, r.status, <<>>, r.sim, r.loads)
                /\ UNCHANGED requests
           ELSE IF ~dbOk
           THEN /\ ev' = Event("recommend", <<q>>, vo, "db_error", <<>>, r.sim, r.loads)
                /\ UNCHANGED requests
           ELSE /\ ev' = Event("recommend", <<q>>, vo, "ok", r.body, r.sim, r.loads)
                /\ requests' = Append(requests,
                     [trace_id |-> served + 1, params_json |-> q,
                      rec |-> r.body[1].recommendation,
                      delta_wp |-> r.body[1].delta_wp])
  /\ UNCHANGED <<files, modelsDirEnv, models, month, nruns, trainPc,
               uses, lru, threads>>

\* A bulk body with an invalid item is rejected as a whole.
BulkRejected(items) ==
  /\ \E i \in 1..Len(items) : ~Validate(items[i])
  /\ ev' = Event("bulk", items, NoOverride, "validation_error", <<>>, FALSE, <<>>)
  /\ UNCHANGED <<cache, files, modelsDirEnv, models, requests, month, nruns, trainPc, served,
               uses, lru, threads>>

\* POST /v1/bulk.
Bulk(items, vo) ==
  /\ \A i \in 1..Len(items) : Validate(items[i])
  /\ served < MaxServed
  /\ served' = served + 1
  /\ LET r == BulkItems(items, vo, cache, files)
     IN /\ cache' = r.cache
        /\ ev' = Event("bulk", items, vo, r.status, r.body, r.sim, r.loads)
  /\ UNCHANGED <<files, modelsDirEnv, models, requests, month, nruns, trainPc,
               uses, lru, threads>>

\* save_model: dump over whatever the path holds.
SaveModel(fl, name, version, content) ==
  [fl EXCEPT ![<<name, version>>] = content]

\* train_models up to its first save; the version is this month's.
TrainSaveEp ==
  /\ trainPc.stage = "idle"
  /\ nruns < MaxRuns
  /\ nruns' = nruns + 1
  /\ files' = SaveModel(files, "ep_model", month, nruns + 1)
  /\ trainPc' = [stage |-> "ep_saved", run |-> nruns + 1, version |-> month]
  /\ ev' = Quiet("train")
  /\ UNCHANGED <<cache, modelsDirEnv, models, requests, month, served,
               uses, lru, threads>>

TrainSaveWp ==
  /\ trainPc.stage = "ep_saved"
  /\ files' = SaveModel(files, "wp_model", trainPc.version, trainPc.run)
  /\ trainPc' = [trainPc EXCEPT !.stage = "wp_saved"]
  /\ ev' = Quiet("train")
  /\ UNCHANGED <<cache, modelsDirEnv, models, requests, month, nruns, served,
               uses, lru, threads>>

\* pd.Series({"mae": ep_mae}).to_json(), {"brier": wp_brier} for wp_model:
\* the metrics of training run r.
MetricsJson(name, r) == <<IF name = "ep_model" THEN "mae" ELSE "brier", r>>

\* Mutant: a plain INSERT into a table without the primary key.
UpsertAppend(rows, name, version, metrics_json, now) ==
  Append(rows, [name |-> name, version |-> version, metrics_json |-> metrics_json,
                created_at |-> now])

\* INSERT INTO models ... ON CONFLICT(name, version) DO UPDATE SET
\* metrics_json = excluded.metrics_json, on the rows of the table.
Upsert(rows, name, version, metrics_json, now) ==
  IF \E i \in 1..Len(rows) : rows[i].name = name /\ rows[i].version = version
  THEN [i \in 1..Len(rows) |->
          IF rows[i].name = name /\ rows[i].version = version
          THEN [rows[i] EXCEPT !.metrics_json = metrics_json]
          ELSE rows[i]]
  ELSE Append(rows, [name |-> name, version |-> version, metrics_json |-> metrics_json,
                     created_at |-> now])

\* The two ledger statements of train_models, in one transaction.
TrainLedger ==
  /\ trainPc.stage = "wp_saved"
  /\ models' = Upsert(Upsert(models, "ep_model", trainPc.version,
                             MetricsJson("ep_model", trainPc.run), trainPc.run),
                      "wp_model", trainPc.version,
                      MetricsJson("wp_model", trainPc.run), trainPc.run)
  /\ trainPc' = Idle
  /\ ev' = Quiet("train")
  /\ UNCHANGED <<cache, files, modelsDirEnv, requests, month, nruns, served,
               uses, lru, threads>>

\* The calendar month time.strftime("%Y-%m") reads moves on.
Tick ==
  /\ month < MaxVersion
  /\ month' = month + 1
  /\ ev' = Quiet("tick")
  /\ UNCHANGED <<cache, files, modelsDirEnv, models, requests, nruns, trainPc, served,
               uses, lru, threads>>

Next ==
  \/ \E q \in InputQs : RecommendRejected(q)
  \/ \E q \in InputQs, vo \in Overrides, dbOk \in BOOLEAN : Recommend(q, vo, dbOk)
  \/ \E items \in BulkInputs : BulkRejected(items)
  \/ \E items \in BulkInputs, vo \in Overrides : Bulk(items, vo)
  \/ TrainSaveEp
  \/ TrainSaveWp
  \/ TrainLedger
  \/ Tick

Spec == Init /\ [][Next]_vars

\* ------------------------------------------------- the cache on its own
\* SimpleLRUCache driven directly by get and set, capacity LruMaxsize.
\* uses records every use of a key: each set and each get that hits.
LruQs ==
  { MkQuery(4, 1, 45, 120, 4, -3, 1, 2, TRUE), MkQuery(4, 2, 45, 120, 4, -3, 1, 2, TRUE),
    MkQuery(4, 8, 80, 120, 4, 14, 1, 2, TRUE) }

LruValues == { [recommendation |-> "GO"], [recommendation |-> "PUNT"] }

\* SimpleLRUCache.get(obj)
CacheGetOp(q) ==
  /\ Len(uses) < LruMaxOps
  /\ LET k == Key(q)
         hit == k \in CacheKeys(cache)
     IN /\ cache' = CacheTouch(cache, k)
        /\ uses' = IF hit THEN Append(uses, [op |-> "get", key |-> k, value |-> None])
                          ELSE uses
        /\ ev' = Event("get", <<q>>, NoOverride, IF hit THEN "hit" ELSE "miss",
                       IF hit THEN <<CacheValue(cache, k)>> ELSE <<>>, FALSE, <<>>)
  /\ UNCHANGED <<files, modelsDirEnv, models, requests, month, nruns, trainPc, served,
                 lru, threads>>

\* SimpleLRUCache.set(obj, value)
CacheSetOp(q, v) ==
  /\ Len(uses) < LruMaxOps
  /\ cache' = SetItem(cache, Key(q), v, LruMaxsize)
  /\ uses' = Append(uses, [op |-> "set", key |-> Key(q), value |-> v])
  /\ ev' = Event("set", <<q>>, NoOverride, "none", <<>>, FALSE, <<>>)
  /\ UNCHANGED <<files, modelsDirEnv, models, requests, month, nruns, trainPc, served,
                 lru, threads>>

CacheNext ==
  \/ \E q \in LruQs : CacheGetOp(q)
  \/ \E q \in LruQs, v \in LruValues : CacheSetOp(q, v)

CacheSpec == Init /\ [][CacheNext]_vars

\* ------------------------------------- the cache under concurrent requests
\* Request handlers run on worker threads and share the module-level cache.
\* A get or set is a sequence of steps of cachetools.LRUCache on lru; a thread
\* switch may fall between any two steps. served counts the operations begun,
\* uses records the sets begun.
DataKeys(d) == { e.key : e \in d }

DataGet(d, k) == (CHOOSE e \in d : e.key = k).value

DataPut(d, k, v) == { e \in d : e.key # k } \cup { [key |-> k, value |-> v] }

DataDel(d, k) == { e \in d : e.key # k }

InOrder(o, k) == \E i \in 1..Len(o) : o[i] = k

\* LRUCache.__update: move_to_end(key), or insert the key at the end.
Update(o, k) == Append(SelectSeq(o, LAMBDA x : x # k), k)

\* An operation of thread t returns (or raises) and the thread is free again.
Return(t, op, status, body) ==
  /\ threads' = [threads EXCEPT ![t] = IdleThread]
  /\ ev' = Event(op, <<>>, NoOverride, status, body, FALSE, <<>>)

Goto(t, pc) == threads' = [threads EXCEPT ![t].pc = pc]

\* cache.get(obj): Cache.__getitem__ reads the stored map.
GetCall(t, q) ==
  /\ threads[t].pc = "idle"
  /\ served < RaceMaxOps
  /\ served' = served + 1
  /\ IF Key(q) \in DataKeys(lru.data)
     THEN /\ threads' = [threads EXCEPT ![t] =
                [pc |-> "get_update", key |-> Key(q),
                 value |-> DataGet(lru.data, Key(q)), victim |-> None]]
          /\ ev' = Quiet("cache")
     ELSE Return(t, "get", "miss", <<>>)
  /\ UNCHANGED <<cache, files, modelsDirEnv, models, requests, month, nruns, trainPc,
                 uses, lru>>

\* LRUCache.__getitem__: if key in self: self.__update(key); return value
GetUpdate(t) ==
  /\ threads[t].pc = "get_update"
  /\ lru' = IF threads[t].key \in DataKeys(lru.data)
            THEN [lru EXCEPT !.order = Update(lru.order, threads[t].key)]
            ELSE lru
  /\ Return(t, "get", "hit", <<threads[t].value>>)
  /\ UNCHANGED <<cache, files, modelsDirEnv, models, requests, month, nruns, trainPc,
                 served, uses>>

\* cache.set(obj, value) is entered.
SetCall(t, q, v) ==
  /\ threads[t].pc = "idle"
  /\ served < RaceMaxOps
  /\ served' = served + 1
  /\ threads' = [threads EXCEPT ![t] =
        [pc |-> "set_check", key |-> Key(q), value |-> v, victim |-> None]]
  /\ uses' = Append(uses, [op |-> "set", key |-> Key(q), value |-> v])
  /\ ev' = Quiet("cache")
  /\ UNCHANGED <<cache, files, modelsDirEnv, models, requests, month, nruns, trainPc, lru>>

\* Cache.__setitem__: if key not in data: while currsize + size > maxsize
SetCheck(t) ==
  /\ threads[t].pc = "set_check"
  /\ IF threads[t].key \notin DataKeys(lru.data) /\ lru.currsize + 1 > LruMaxsize
     THEN Goto(t, "pop_pick")
     ELSE Goto(t, "store")
  /\ ev' = Quiet("cache")
  /\ UNCHANGED <<cache, files, modelsDirEnv, models, requests, month, nruns, trainPc,
                 served, uses, lru>>

\* LRUCache.popitem: key = next(iter(self.__order)), KeyError when empty.
PopPick(t) ==
  /\ threads[t].pc = "pop_pick"
  /\ IF lru.order = <<>>
     THEN Return(t, "set", "error", <<>>)
     ELSE /\ threads' = [threads EXCEPT ![t].pc = "pop_del", ![t].victim = lru.order[1]]
          /\ ev' = Quiet("cache")
  /\ UNCHANGED <<cache, files, modelsDirEnv, models, requests, month, nruns, trainPc,
                 served, uses, lru>>

\* LRUCache.popitem: self.pop(key), KeyError when the key is gone; then the
\* while condition of Cache.__setitem__ is evaluated again.
PopDel(t) ==
  /\ threads[t].pc = "pop_del"
  /\ IF threads[t].victim \in DataKeys(lru.data) /\ InOrder(lru.order, threads[t].victim)
     THEN /\ lru' = [data |-> DataDel(lru.data, threads[t].victim),
                     order |-> SelectSeq(lru.order, LAMBDA x : x # threads[t].victim),
                     currsize |-> lru.currsize - 1]
          /\ threads' = [threads EXCEPT ![t].pc =
                IF lru.currsize - 1 + 1 > LruMaxsize THEN "pop_pick" ELSE "store"]
          /\ ev' = Quiet("cache")
     ELSE /\ lru' = lru
          /\ Return(t, "set", "error", <<>>)
  /\ UNCHANGED <<cache, files, modelsDirEnv, models, requests, month, nruns, trainPc,
                 served, uses>>

\* Cache.__setitem__: diffsize; self.__data[key] = value; currsize += diffsize
Store(t) ==
  /\ threads[t].pc = "store"
  /\ lru' = [lru EXCEPT
        !.data = DataPut(lru.data, threads[t].key, threads[t].value),
        !.currsize = IF threads[t].key \in DataKeys(lru.data) THEN @ ELSE @ + 1]
  /\ Goto(t, "set_update")
  /\ ev' = Quiet("cache")
  /\ UNCHANGED <<cache, files, modelsDirEnv, models, requests, month, nruns, trainPc,
                 served, uses>>

\* LRUCache.__setitem__: self.__update(key)
SetUpdate(t) ==
  /\ threads[t].pc = "set_update"
  /\ lru' = [lru EXCEPT !.order = Update(lru.order, threads[t].key)]
  /\ Return(t, "set", "none", <<>>)
  /\ UNCHANGED <<cache, files, modelsDirEnv, models, requests, month, nruns, trainPc,
                 served, uses>>

RaceNext ==
  \E t \in 1..MaxThreads :
    \/ \E q \in LruQs : GetCall(t, q)
    \/ GetUpdate(t)
    \/ \E q \in LruQs, v \in LruValues : SetCall(t, q, v)
    \/ SetCheck(t)
    \/ PopPick(t)
    \/ PopDel(t)
    \/ Store(t)
    \/ SetUpdate(t)

RaceSpec == Init /\ [][RaceNext]_vars

\* ------------------------------------------- the model store on its own
\* save_model and load_model called directly; the writer (thread 1) and the
\* readers are different processes. dump writes the final path in place, so
\* between its open and its close the file is there but incomplete. nruns
\* numbers the saves, uses records the arguments of each save.
Partial == -1

\* What save_model is given for its n-th call: model, calibrator, metadata.
Artifact(name, n) ==
  [model |-> <<name, n>>,
   calibrator |-> IF name = "wp_model" THEN <<"calibrator", n>> ELSE None,
   metadata |-> [run |-> n]]

\* The pickled dict of a complete file, read back.
Unpickle(name, content) == Artifact(name, content)

\* save_model up to the moment dump has opened (truncated) the file.
SaveBegin(name, version) ==
  /\ threads[1].pc = "idle"
  /\ nruns < StoreMaxSaves
  /\ nruns' = nruns + 1
  /\ files' = [files EXCEPT ![<<name, version>>] = Partial]
  /\ threads' = [threads EXCEPT ![1] =
        [pc |-> "dump", key |-> <<name, version>>, value |-> nruns + 1, victim |-> None]]
  /\ uses' = Append(uses, [op |-> "save", key |-> <<name, version>>,
                           value |-> <<Artifact(name, nruns + 1).model,
                                       Artifact(name, nruns + 1).calibrator,
                                       Artifact(name, nruns + 1).metadata>>])
  /\ ev' = Quiet("save")
  /\ UNCHANGED <<cache, modelsDirEnv, models, requests, month, trainPc, served, lru>>

\* dump has written everything and closed the file.
SaveEnd ==
  /\ threads[1].pc = "dump"
  /\ files' = SaveModel(files, threads[1].key[1], threads[1].key[2], threads[1].value)
  /\ threads' = [threads EXCEPT ![1] = IdleThread]
  /\ ev' = Quiet("save")
  /\ UNCHANGED <<cache, modelsDirEnv, models, requests, month, nruns, trainPc, served,
                 uses, lru>>

\* load_model(name, version): joblib.load raises FileNotFoundError for a
\* missing file and an unpickling error for an incomplete one.
LoadModel(name, version) ==
  /\ LET content == files[<<name, version>>]
         obj == Unpickle(name, content)
     IN ev' = Event("load", <<>>, NoOverride,
                    IF content = NoFile THEN "not_found"
                    ELSE IF content = Partial THEN "corrupt" ELSE "ok",
                    IF content \in {NoFile, Partial} THEN <<>>
                    ELSE << <<obj.model, obj.calibrator, obj.metadata>> >>,
                    FALSE, << <<name, version>> >>)
  /\ UNCHANGED <<cache, files, modelsDirEnv, models, requests, month, nruns, trainPc,
                 served, uses, lru, threads>>

StoreNext ==
  \/ \E name \in Names, version \in Versions : SaveBegin(name, version)
  \/ SaveEnd
  \/ \E name \in Names, version \in Versions : LoadModel(name, version)

StoreSpec == Init /\ [][StoreNext]_vars

\* ------------------------------------------------- training on a table
\* train_models(csv_path=...): raw is the set of column names of the table.
OutCols ==
  {"down", "ydstogo", "yardline_100", "qtr", "time_remaining", "score_diff",
   "offense_timeouts", "defense_timeouts", "home"}

\* colmap: the source column of each feature.
ColMap(out_col) ==
  CASE out_col = "time_remaining" -> "half_seconds_remaining"
    [] out_col = "score_diff" -> "score_differential"
    [] out_col = "offense_timeouts" -> "posteam_timeouts_remaining"
    [] out_col = "defense_timeouts" -> "defteam_timeouts_remaining"
    [] OTHER -> out_col

AllSrc == { ColMap(c) : c \in OutCols } \cup {"ep_next_score", "win"}

Tables ==
  { AllSrc, AllSrc \ {"win"}, AllSrc \ {"down"}, AllSrc \ {"home"},
    AllSrc \ {"ep_next_score"},
    (AllSrc \ {"half_seconds_remaining"}) \cup {"time_remaining"} }

\* The data frame built from raw: where each feature, the EP target and the
\* win label come from.
MapColumns(raw) ==
  [cols |-> [out_col \in OutCols |->
               IF ColMap(out_col) \in raw THEN <<"column", ColMap(out_col)>>
               ELSE IF out_col \in raw THEN <<"column", out_col>>
               ELSE IF out_col \in {"offense_timeouts", "defense_timeouts"}
                    THEN <<"default", 3>>
               ELSE IF out_col = "home" THEN <<"default", 1>>
               ELSE <<"default", 0>>],
   ep_next_score |-> IF "ep_next_score" \in raw THEN "column" ELSE "formula",
   win |-> IF "win" \in raw THEN "column" ELSE "random"]

\* train_models(csv_path) up to its first save: read and map the table, fit
\* both models, save the EP model under this month's version.
TrainCsvSaveEp(raw) ==
  /\ trainPc.stage = "idle"
  /\ nruns < MaxRuns
  /\ nruns' = nruns + 1
  /\ files' = SaveModel(files, "ep_model", month, nruns + 1)
  /\ trainPc' = [stage |-> "ep_saved", run |-> nruns + 1, version |-> month, raw |-> raw]
  /\ ev' = Event("train", <<raw>>, NoOverride, "none", <<MapColumns(raw)>>, FALSE, <<>>)
  /\ UNCHANGED <<cache, modelsDirEnv, models, requests, month, served,
                 uses, lru, threads>>

TrainNext ==
  \/ \E raw \in Tables : TrainCsvSaveEp(raw)
  \/ TrainSaveEp
  \/ TrainSaveWp
  \/ TrainLedger
  \/ Tick

TrainSpec == Init /\ [][TrainNext]_vars

\* ------------------------------------------- the simulator on its own
\* One cache miss of _infer_one from the simulator call to the response, for
\* a query and a pair of stored models drawn at the start.
SimQs ==
  { MkQuery(d, togo, yl, 120, 4, sd, 1, 2, TRUE) :
      d \in {1, 4}, togo \in 1..MaxTogo, yl \in {1, 3, 20, 45, 50, 60, 93, 94, 99},
      sd \in {-3, 0, 14} }

\* Version 1 holds the models fitted by runs e and w.
StoreOf(e, w) ==
  [nv \in Names \X Versions |->
     IF nv = <<"ep_model", 1>> THEN e ELSE IF nv = <<"wp_model", 1>> THEN w ELSE NoFile]

SimInit ==
  /\ cache = <<>>
  /\ files \in { StoreOf(e, w) : e \in 1..MaxSimRun, w \in 1..MaxSimRun }
  /\ modelsDirEnv = "default"
  /\ models = <<>>
  /\ requests = <<>>
  /\ month = 1
  /\ nruns = 0
  /\ trainPc = Idle
  /\ served = 0
  /\ ev \in { Event("input", <<q>>, 1, "none", <<>>, FALSE, <<>>) : q \in SimQs }
  /\ uses = <<>>
  /\ lru = EmptyLru
  /\ threads = NoThreads

\* wps = simulate_actions_to_wp(ep_model, wp_cal, features) and the response
\* built from it.
Simulate ==
  /\ ev.op = "input"
  /\ LET q == ev.qs[1]
         wps == SimulateActionsToWp(files[<<"ep_model", 1>>], files[<<"wp_model", 1>>],
                                    Features(q))
     IN ev' = Event("simulate", <<q>>, 1, "ok", <<BuildResponse(q, wps, 1, files)>>,
                    TRUE, << <<"ep_model", 1>>, <<"wp_model", 1>> >>)
  /\ UNCHANGED <<cache, files, modelsDirEnv, models, requests, month, nruns, trainPc,
                 served, uses, lru, threads>>

SimNext == Simulate

SimSpec == SimInit /\ [][SimNext]_vars

\* ================================================================== claims
HasKey(c, k) == \E i \in 1..Len(c) : c[i].key = k

ValueAt(c, k) == c[CHOOSE i \in 1..Len(c) : c[i].key = k].value

\* The step is a request the handler ran.
Handled(op) == served' = served + 1 /\ ev'.op = op

BothArtifacts(fl, v) ==
  /\ v \in Versions
  /\ fl[<<"ep_model", v>>] # NoFile
  /\ fl[<<"wp_model", v>>] # NoFile

\* One step of the cache contract: a hit replays, a miss that succeeds stores
\* what it returns, and only a bulk request (which may evict and recompute an
\* entry) changes the content cached for a key.
C1_Step ==
  /\ ev'.op # "bulk" =>
       \A i \in 1..Len(cache) :
         HasKey(cache', cache[i].key) => ValueAt(cache', cache[i].key) = cache[i].value
  /\ (Handled("recommend") /\ ev'.override = NoOverride) =>
       LET k == Key(ev'.qs[1])
       IN IF HasKey(cache, k)
          THEN /\ ev'.sim = FALSE
               /\ ev'.loads = <<>>
               /\ ev'.status \in {"ok", "db_error"}
               /\ ev'.status = "ok" => ev'.body = <<ValueAt(cache, k)>>
               /\ HasKey(cache', k)
          ELSE ev'.status = "ok" =>
                 /\ ev'.sim = TRUE
                 /\ HasKey(cache', k)
                 /\ ev'.body = <<ValueAt(cache', k)>>

\* C1: a recommend call without override that finds its query in the cache
\* (a second call, the entry not evicted in between) returns the content the
\* computing call returned and cached, without running the simulator or
\* loading an artifact from the model store.
C1_CacheHitReplays == [][C1_Step]_vars

C1_Witness ==
  /\ ev.op = "recommend" /\ ev.override = NoOverride /\ ev.status = "ok"
  /\ ev.sim = FALSE
  /\ Len(requests) = 2
  /\ requests[1].params_json = requests[2].params_json
  /\ ev.qs[1] = requests[1].params_json

\* C2: for a fixed query and a fixed (explicit) model version, the result of
\* a recommend call does not depend on the requests made before it: it is
\* the result the same call returns from an empty cache.
C2_Determinism ==
  (/\ modelsDirEnv = "default"
   /\ ev.op = "recommend" /\ ev.status = "ok" /\ ev.override # NoOverride) =>
    ev.body = InferOne(ev.qs[1], ev.override, <<>>, files).body

\* C3: the result of a request with an explicit version override is computed
\* from the artifacts stored under the overriding version.
C3_OverrideBypassesCache ==
  (ev.op = "recommend" /\ ev.status = "ok" /\ ev.override # NoOverride) =>
    /\ BothArtifacts(files, ev.override)
    /\ ev.body[1].alternatives =
         SimulateActionsToWp(files[<<"ep_model", ev.override>>],
                             files[<<"wp_model", ev.override>>], Features(ev.qs[1]))

\* C4: a response to a request that overrides the version with V, both
\* artifacts of V being stored, reports V as its model version.
C4_VersionReflectsOverride ==
  (/\ modelsDirEnv = "default"
   /\ ev.op = "recommend" /\ ev.status = "ok" /\ ev.sim
   /\ ev.override # NoOverride /\ BothArtifacts(files, ev.override)) =>
    ev.body[1].version = <<ApiVersion, ev.override>>

\* C5: a request whose requested or resolved version lacks a stored artifact
\* ends in a not-found error and returns no result.
C5_MissingArtifactFails ==
  (/\ modelsDirEnv = "default"
   /\ ev.op = "recommend" /\ ev.status \in {"ok", "not_found"}
   /\ ~BothArtifacts(files, ResolveVersion(ev.override, files))) =>
    ev.status = "not_found"

\* The documented bounds of the query fields.
InBounds(q) ==
  /\ q.down \in 1..4
  /\ q.ydstogo \in 1..100
  /\ q.yardline_100 \in 1..99
  /\ q.qtr \in 1..5
  /\ q.offense_timeouts \in 0..3
  /\ q.defense_timeouts \in 0..3
  /\ q.time_remaining >= 0

\* One step of validation: a request holding an out-of-bounds query is
\* rejected and changes nothing; the log only ever gains in-bounds queries.
C6_Step ==
  /\ (/\ ev'.op \in {"recommend", "bulk"}
      /\ \E i \in 1..Len(ev'.qs) : ~InBounds(ev'.qs[i])) =>
       /\ ev'.status = "validation_error"
       /\ ev'.body = <<>> /\ ev'.sim = FALSE /\ ev'.loads = <<>>
       /\ cache' = cache /\ files' = files /\ requests' = requests
  /\ \A i \in 1..Len(requests') : InBounds(requests'[i].params_json)

\* C6: a recommend or bulk request holding a query with a field out of
\* bounds ends in a validation error; cache, store and request log stay as
\* they were, no artifact is loaded, the simulator does not run, and no
\* out-of-bounds (or clamped) query is ever logged as served.
C6_BoundsEnforced == [][C6_Step]_vars

C6_Witness ==
  /\ ev.op = "recommend" /\ ev.status = "validation_error"
  /\ ev.qs[1].yardline_100 = 100
  /\ cache # <<>> /\ requests # <<>>

ThreeActions(alts) ==
  /\ Len(alts) = 3
  /\ \A a \in {"GO", "PUNT", "FG"} :
       Cardinality({ i \in 1..Len(alts) : alts[i].action = a }) = 1
  /\ \A i \in 1..Len(alts) : alts[i].wp >= 2000 /\ alts[i].wp <= 198000

\* C7: every returned result and every cached result lists exactly GO, PUNT
\* and FG, once each, each with a win probability in [0.01, 0.99].
C7_ActionSet ==
  /\ \A i \in 1..Len(ev.body) : ThreeActions(ev.body[i].alternatives)
  /\ \A i \in 1..Len(cache) : ThreeActions(cache[i].value.alternatives)

C7_Witness ==
  /\ ev.status = "ok" /\ ev.sim
  /\ \E i \in 1..Len(cache) :
       \E j \in 1..3 : cache[i].value.alternatives[j].wp = 198000

\* The cache after items 1..n of a bulk request were served one by one.
RECURSIVE CacheAfter(_, _, _, _, _)
CacheAfter(items, n, vo, c, fl) ==
  IF n = 0 THEN c
  ELSE InferOne(items[n], vo, CacheAfter(items, n - 1, vo, c, fl), fl).cache

\* One bulk step that returns a list: results match the items, in order.
C8_Step ==
  (Handled("bulk") /\ ev'.status = "ok") =>
    /\ Len(ev'.body) = Len(ev'.qs)
    /\ \A i \in 1..Len(ev'.qs) :
         <<ev'.body[i]>> =
           InferOne(ev'.qs[i], ev'.override,
                    CacheAfter(ev'.qs, i - 1, ev'.override, cache, files), files).body

C9_Step ==
  (/\ modelsDirEnv = "default"
   /\ Handled("bulk")
   /\ \E i \in 1..Len(ev'.qs) :
        InferOne(ev'.qs[i], ev'.override, cache, files).status = "ok") =>
    Len(ev'.body) = Len(ev'.qs)

\* C9: in a bulk request an item that can be served is reported even when a
\* sibling item fails.
C9_BulkIsolation == [][C9_Step]_vars

\* C10: a recommend request whose log write fails still returns its result.
C10_TelemetryBestEffort ==
  (ev.op = "recommend" /\ ev.status = "db_error") => Len(ev.body) = 1

\* The trace ids of a log.
TraceIds(log) == { log[i].trace_id : i \in 1..Len(log) }

\* One step of the request log: entries stay as they are, a recommend call
\* that returns a result adds one entry, a bulk request adds one per item.
C11_Step ==
  /\ Len(requests') >= Len(requests)
  /\ SubSeq(requests', 1, Len(requests)) = requests
  /\ (Handled("recommend") /\ ev'.status = "ok") =>
       /\ Len(requests') = Len(requests) + 1
       /\ requests'[Len(requests')].trace_id \notin TraceIds(requests)
  /\ (Handled("bulk") /\ ev'.status = "ok") =>
       /\ Len(requests') = Len(requests) + Len(ev'.body)
       /\ Cardinality(TraceIds(requests')) = Len(requests')

\* C11: every served request (a recommend call that returns a result, from
\* the cache or computed, and every item a bulk request serves) appends
\* exactly one log entry with a fresh trace id, and no entry of the log is
\* ever changed or removed.
C11_LogComplete == [][C11_Step]_vars

\* The keys of a use history, each once, ordered by their last use.
RECURSIVE Recency(_)
Recency(h) ==
  IF h = <<>> THEN <<>>
  ELSE LET k == h[Len(h)].key
       IN Append(SelectSeq(Recency(SubSeq(h, 1, Len(h) - 1)), LAMBDA x : x # k), k)

LastN(s, n) == IF Len(s) <= n THEN s ELSE SubSeq(s, Len(s) - n + 1, Len(s))

\* The value of the latest set of key k in history h.
LastSetValue(h, k) ==
  h[MaxOf({ i \in 1..Len(h) : h[i].op = "set" /\ h[i].key = k })].value

KeyOrder(c) == [i \in 1..Len(c) |-> c[i].key]

\* One step of the cache: afterwards it holds the LruMaxsize most recently
\* used keys in order of use, each with the value last set for it; an entry
\* leaves only as the least recently used one when a set of a new key finds
\* the cache full; a get hit returns the value last set.
C12_Step ==
  /\ Len(cache') <= LruMaxsize
  /\ KeyOrder(cache') = LastN(Recency(uses'), LruMaxsize)
  /\ \A i \in 1..Len(cache') : cache'[i].value = LastSetValue(uses', cache'[i].key)
  /\ \A k \in CacheKeys(cache) \ CacheKeys(cache') :
       /\ ev'.op = "set"
       /\ Key(ev'.qs[1]) \notin CacheKeys(cache)
       /\ Len(cache) = LruMaxsize
       /\ k = Recency(uses)[Len(Recency(uses)) - LruMaxsize + 1]
  /\ Cardinality(CacheKeys(cache) \ CacheKeys(cache')) <= 1
  /\ ev'.status = "hit" => ev'.body = <<LastSetValue(uses, Key(ev'.qs[1]))>>

\* C12: after any sequence of get and set operations the cache holds at
\* most its capacity of entries; a set of a new key into a full cache evicts
\* the least recently used entry, a get hit and a set both counting as a
\* use; no entry is removed for any other reason.
C12_LruCapacity == [][C12_Step]_vars

\* set a, set b, get a, set c: b is evicted although a was stored first.
C12_Witness ==
  /\ Len(uses) = 4
  /\ uses[1].op = "set" /\ uses[2].op = "set" /\ uses[3].op = "get" /\ uses[4].op = "set"
  /\ uses[3].key = uses[1].key
  /\ KeyOrder(cache) = <<uses[1].key, uses[4].key>>
  /\ uses[2].key \notin CacheKeys(cache)

AllIdle(th) == \A t \in 1..MaxThreads : th[t].pc = "idle"

\* The LRUCache fields agree with each other and with the capacity.
Consistent(l) ==
  /\ Cardinality(DataKeys(l.data)) <= LruMaxsize
  /\ l.currsize = Cardinality(DataKeys(l.data))
  /\ { l.order[i] : i \in 1..Len(l.order) } = DataKeys(l.data)
  /\ Len(l.order) = Cardinality(DataKeys(l.data))

\* One step of concurrent cache operations: no operation fails, a get that
\* hits returns a value set for its key, and the cache is consistent whenever
\* no operation is under way.
C13_Step ==
  /\ ev'.status # "error"
  /\ \A t \in 1..MaxThreads :
       (threads[t].pc = "get_update" /\ threads'[t].pc = "idle") =>
         \E i \in 1..Len(uses) :
           uses[i].key = threads[t].key /\ uses[i].value = ev'.body[1]
  /\ AllIdle(threads') => Consistent(lru')

\* C13: under every interleaving of the steps of concurrent get and set
\* operations, with no lock around them, the cache stays consistent: the
\* capacity bound holds, recency order and stored map agree, a get returns
\* only a value set for its key, and no operation fails.
C13_CacheThreadSafe == [][C13_Step]_vars

\* The triples given to the saves at key nv, in order.
SavedAt(h, nv) ==
  { h[i].value : i \in { j \in 1..Len(h) : h[j].op = "save" /\ h[j].key = nv } }

\* C14: load(name, version) fails with a not-found error when no artifact
\* exists at the key, and otherwise returns a complete triple that was saved
\* at that key, also while a save to the same key is under way; it has no
\* other outcome.
C14_LoadComplete ==
  ev.op = "load" =>
    LET nv == ev.loads[1]
    IN /\ ev.status \in {"not_found", "ok"}
       /\ ev.status = "not_found" => SavedAt(uses, nv) = {}
       /\ ev.status = "ok" => ev.body[1] \in SavedAt(uses, nv)

\* One step of the store: a stored artifact keeps its content.
C15_Step ==
  \A nv \in Names \X Versions : files[nv] # NoFile => files'[nv] = files[nv]

\* C15: once an artifact is stored under a (name, version) key its content
\* never changes; a later training run publishes under a new version and
\* does not overwrite the existing key.
C15_ArtifactImmutable == [][C15_Step]_vars

RowsOf(rows, name, version) ==
  { i \in 1..Len(rows) : rows[i].name = name /\ rows[i].version = version }

\* One step of the ledger: keys stay unique; the step that ends a training
\* run leaves, for each model, one row under the run's version, holding the
\* run's metrics, and leaves the rows of other keys as they were.
C16_Step ==
  /\ \A name \in Names, version \in Versions :
       Cardinality(RowsOf(models', name, version)) <= 1
  /\ (trainPc.stage = "wp_saved" /\ trainPc'.stage = "idle") =>
       /\ \A name \in Names :
            /\ Cardinality(RowsOf(models', name, trainPc.version)) = 1
            /\ \A i \in RowsOf(models', name, trainPc.version) :
                 models'[i].metrics_json = MetricsJson(name, trainPc.run)
       /\ Len(models') = Len(models)
            + Cardinality({ name \in Names : RowsOf(models, name, trainPc.version) = {} })
       /\ \A i \in 1..Len(models) :
            models[i].version # trainPc.version => models'[i] = models[i]
  /\ trainPc.stage # "wp_saved" => models' = models

\* C16: after any sequence of training runs the ledger holds one row per
\* (name, version); a run whose version is already present replaces the
\* metrics of that row with its own and neither adds a row nor fails.
C16_LedgerUpsert == [][C16_Step]_vars

\* Two runs in one month: two rows, both with the metrics of the second run.
C16_Witness ==
  /\ nruns = 2 /\ month = 1 /\ trainPc.stage = "idle"
  /\ Len(models) = 2
  /\ \A i \in 1..Len(models) :
       models[i].version = 1 /\ models[i].metrics_json = MetricsJson(models[i].name, 2)

\* EP(GO) the simulator computes for query q with EP model e.
EpGo(e, q) == SimulateActionsToWp(e, 1, Features(q))[1].ep

\* C17: with the EP model given by the ground-truth linear formula of the
\* training data, and every other field fixed, EP(GO) for ydstogo = n is at
\* least EP(GO) for ydstogo = n + 1, for n = 1 .. 7.
C17_GoMonotone ==
  (/\ ev.op = "simulate"
   /\ files[<<"ep_model", 1>>] = 1
   /\ ev.qs[1].ydstogo < 8) =>
    ev.body[1].alternatives[1].ep >= EpGo(1, [ev.qs[1] EXCEPT !.ydstogo = @ + 1])

\* The table has a source for every feature without a documented default
\* (home = 1, timeouts = 3) and has the win label.
Mappable(raw) ==
  /\ "win" \in raw
  /\ \A c \in OutCols \ {"home", "offense_timeouts", "defense_timeouts"} :
       ColMap(c) \in raw \/ c \in raw

\* One step of training: a run on a table that cannot be mapped ends in an
\* error at once, builds no data frame, and no step of it writes an artifact
\* or a ledger row.
C18_Step ==
  /\ (trainPc.stage = "idle" /\ ev'.op = "train" /\ Len(ev'.qs) = 1
      /\ ~Mappable(ev'.qs[1])) =>
       /\ ev'.status = "error"
       /\ ev'.body = <<>>
       /\ trainPc' = Idle
       /\ files' = files /\ models' = models
  /\ (trainPc.stage # "idle" /\ "raw" \in DOMAIN trainPc /\ ~Mappable(trainPc.raw)) =>
       files' = files /\ models' = models

\* C18: training on a table that cannot be mapped to the feature schema (a
\* required source column or the win label is missing) ends in an error and
\* stores no artifact and no ledger row; it does not go on with randomly
\* drawn labels or undocumented zero defaults.
C18_TrainFailsLoudly == [][C18_Step]_vars

\* Position of an action in the order GO, PUNT, FG.
Rank(a) == CASE a = "GO" -> 1 [] a = "PUNT" -> 2 [] a = "FG" -> 3 [] OTHER -> 4

\* The win probability a response lists for action a.
WpOf(resp, a) ==
  (CHOOSE alt \in { resp.alternatives[i] : i \in 1..Len(resp.alternatives) } :
     alt.action = a).wp

\* C19: the recommendation of a computed response is one of GO, PUNT, FG; no
\* alternative has a higher win probability; and no action earlier in the
\* order GO, PUNT, FG has an equal one.
C19_Selection ==
  ev.op = "simulate" =>
    LET resp == ev.body[1]
        rec == resp.recommendation
    IN /\ rec \in {"GO", "PUNT", "FG"}
       /\ \A a \in {"GO", "PUNT", "FG"} :
            /\ WpOf(resp, a) <= WpOf(resp, rec)
            /\ Rank(a) < Rank(rec) => WpOf(resp, a) < WpOf(resp, rec)

\* PUNT and FG tie for the highest win probability and PUNT is recommended.
C19_Witness ==
  /\ ev.op = "simulate"
  /\ ev.body[1].recommendation = "PUNT"
  /\ WpOf(ev.body[1], "FG") = WpOf(ev.body[1], "PUNT")
  /\ WpOf(ev.body[1], "GO") < WpOf(ev.body[1], "PUNT")

\* The highest win probability among the actions other than a.
BestOther(resp, a) ==
  MaxOf({ WpOf(resp, b) : b \in {"GO", "PUNT", "FG"} \ {a} })

\* C20: delta_wp of a computed response is the win probability of the
\* recommended action minus the highest win probability among the other two
\* actions; it is not negative, and it is 0 exactly when two or more actions
\* share the highest win probability.
C20_DeltaWp ==
  ev.op = "simulate" =>
    LET resp == ev.body[1]
        top == MaxOf({ WpOf(resp, a) : a \in {"GO", "PUNT", "FG"} })
    IN /\ resp.delta_wp = WpOf(resp, resp.recommendation) - BestOther(resp, resp.recommendation)
       /\ resp.delta_wp >= 0
       /\ resp.delta_wp = 0 <=>
            Cardinality({ a \in {"GO", "PUNT", "FG"} : WpOf(resp, a) = top }) >= 2

\* FG is recommended ahead of GO, PUNT last: the gap is the one to GO.
C20_Witness ==
  /\ ev.op = "simulate"
  /\ ev.body[1].recommendation = "FG"
  /\ WpOf(ev.body[1], "PUNT") < WpOf(ev.body[1], "GO")
  /\ ev.body[1].delta_wp = WpOf(ev.body[1], "FG") - WpOf(ev.body[1], "GO")
  /\ ev.body[1].delta_wp > 0

\* The expected points a response lists for action a.
EpOf(resp, a) ==
  (CHOOSE alt \in { resp.alternatives[i] : i \in 1..Len(resp.alternatives) } :
     alt.action = a).ep

\* The actions other than the recommended one with the highest win
\* probability among them.
RunnersUp(resp) ==
  { a \in {"GO", "PUNT", "FG"} \ {resp.recommendation} :
      WpOf(resp, a) = BestOther(resp, resp.recommendation) }

\* C21: delta_ep of a computed response is the expected points of the
\* recommended action minus the expected points of the runner-up, the action
\* with the second-highest win probability.
C21_DeltaEp ==
  ev.op = "simulate" =>
    \E a \in RunnersUp(ev.body[1]) :
      ev.body[1].delta_ep = EpOf(ev.body[1], ev.body[1].recommendation) - EpOf(ev.body[1], a)

\* The rationale string of each recommended action.
ActionString(a) ==
  CASE a = "GO" -> "Calibrated WP favors GO"
    [] a = "FG" -> "High make probability given distance"
    [] a = "PUNT" -> "Field position swing favors punt"

\* Position of a rationale string in the order distance, field position,
\* action.
Kind(str) ==
  CASE str = "To-go <= 3" -> 1
    [] str = "Opp red zone field position" -> 2
    [] str \in { ActionString(a) : a \in {"GO", "PUNT", "FG"} } -> 3
    [] OTHER -> 0

\* C22: the rationale of a computed response is not empty; it holds the
\* distance trigger exactly when ydstogo <= 3, the field-position trigger
\* exactly when yardline_100 >= 60, and exactly one action string, that of
\* the recommended action; the strings come in the order distance, field
\* position, action.
C22_Rationale ==
  ev.op = "simulate" =>
    LET r == ev.body[1].rationale
        q == ev.qs[1]
    IN /\ r # <<>>
       /\ \A i \in 1..Len(r) : Kind(r[i]) # 0
       /\ (\E i \in 1..Len(r) : Kind(r[i]) = 1) <=> q.ydstogo <= 3
       /\ (\E i \in 1..Len(r) : Kind(r[i]) = 2) <=> q.yardline_100 >= 60
       /\ Cardinality({ i \in 1..Len(r) : Kind(r[i]) = 3 }) = 1
       /\ \E i \in 1..Len(r) : r[i] = ActionString(ev.body[1].recommendation)
       /\ \A i \in 1..Len(r), j \in 1..Len(r) : i < j => Kind(r[i]) < Kind(r[j])

\* Both triggers and the FG string, at the threshold yardline.
C22_Witness ==
  /\ ev.op = "simulate"
  /\ ev.qs[1].yardline_100 = 60 /\ ev.qs[1].ydstogo = 3
  /\ ev.body[1].rationale =
       <<"To-go <= 3", "Opp red zone field position", ActionString(ev.body[1].recommendation)>>

\* The EP model e of the store asked about query q with the yardline slot
\* set to y.
EpAt(e, q, y) ==
  EpPredict(e, <<q.down, q.ydstogo, y, q.qtr, q.time_remaining, q.score_diff,
                 q.offense_timeouts, q.defense_timeouts, Home01(q.home)>>)

\* Conversion probability in percent.
PConvert(togo) == IF togo <= 2 THEN 65 ELSE IF togo <= 4 THEN 50 ELSE 30

\* C23: EP(GO) is p_convert times the EP with possession retained at
\* min(99, yardline + min(6, ydstogo + 1)) plus (1 - p_convert) times the EP
\* with possession flipped at the same spot (model yardline 100 - yardline),
\* p_convert being 0.65 for ydstogo <= 2, 0.5 for 3..4 and 0.3 above.
C23_GoSimulation ==
  ev.op = "simulate" =>
    LET q == ev.qs[1]
        e == files[<<"ep_model", 1>>]
        p == PConvert(q.ydstogo)
        spot == Min(99, q.yardline_100 + Min(6, q.ydstogo + 1))
    IN EpOf(ev.body[1], "GO") =
         p * EpAt(e, q, spot) + (100 - p) * EpAt(e, q, 100 - q.yardline_100)

\* A long conversion near the goal line: the spot is capped at 99.
C23_Witness ==
  /\ ev.op = "simulate"
  /\ ev.qs[1].yardline_100 = 94 /\ ev.qs[1].ydstogo = 8
  /\ EpOf(ev.body[1], "GO") =
       30 * EpAt(files[<<"ep_model", 1>>], ev.qs[1], 99)
       + 70 * EpAt(files[<<"ep_model", 1>>], ev.qs[1], 6)

\* Make probability of a field goal in percent: 95 less one per yard of
\* kick distance (118 - yardline) beyond 25, kept within 5 .. 98.
PMake(yl) ==
  LET raw == 95 - Max(0, (118 - yl) - 25)
  IN IF raw < 5 THEN 5 ELSE IF raw > 98 THEN 98 ELSE raw

\* C24: EP(PUNT) is the EP with possession flipped at offense-view spot
\* max(1, yardline - 38); EP(FG) is p_make * (3 + EP with possession flipped
\* at offense-view 75) + (1 - p_make) * EP with possession flipped at
\* offense-view max(1, yardline - 7); p_make is the clamped linear make
\* probability and does not decrease as yardline_100 grows.
C24_PuntFgSimulation ==
  /\ \A yl \in 1..98 : PMake(yl) <= PMake(yl + 1)
  /\ ev.op = "simulate" =>
       LET q == ev.qs[1]
           e == files[<<"ep_model", 1>>]
           p == PMake(q.yardline_100)
       IN /\ EpOf(ev.body[1], "PUNT") =
               100 * EpAt(e, q, 100 - Max(1, q.yardline_100 - 38))
          /\ EpOf(ev.body[1], "FG") =
               p * (9000 + EpAt(e, q, 100 - 75))
               + (100 - p) * EpAt(e, q, 100 - Max(1, q.yardline_100 - 7))

\* At yardline 1 the make probability is held at 0.05 and both the punt and
\* the missed kick are floored at spot 1.
C24_Witness ==
  /\ ev.op = "simulate"
  /\ ev.qs[1].yardline_100 = 1
  /\ EpOf(ev.body[1], "PUNT") = 100 * EpAt(files[<<"ep_model", 1>>], ev.qs[1], 99)
  /\ EpOf(ev.body[1], "FG") =
       5 * (9000 + EpAt(files[<<"ep_model", 1>>], ev.qs[1], 25))
       + 95 * EpAt(files[<<"ep_model", 1>>], ev.qs[1], 99)

\* The yardlines the EP model receives in the calls of one simulation.
ModelYardlines(base) ==
  [i \in 1..Len(EpCalls(base)) |->
     YardlineForModel(EpCalls(base)[i].yardline_offense_view, EpCalls(base)[i].possession)]

\* Every call of a simulation hands the EP model the offense-view yardline
\* when the offense keeps the ball and 100 minus it when the ball changed
\* sides, the value lies in 1..99, and the EP values of the response are
\* those of the EP model at these yardlines.
PossessionView(resp, e, q) ==
  LET calls == EpCalls(Features(q))
      m == ModelYardlines(Features(q))
  IN /\ \A i \in 1..Len(calls) :
          /\ m[i] = IF calls[i].possession = 1
                    THEN calls[i].yardline_offense_view
                    ELSE 100 - calls[i].yardline_offense_view
          /\ m[i] \in 1..99
     /\ EpOf(resp, "GO") = PConvert(q.ydstogo) * EpAt(e, q, m[1])
                           + (100 - PConvert(q.ydstogo)) * EpAt(e, q, m[2])
     /\ EpOf(resp, "PUNT") = 100 * EpAt(e, q, m[3])
     /\ EpOf(resp, "FG") = PMake(q.yardline_100) * (9000 + EpAt(e, q, m[4]))
                           + (100 - PMake(q.yardline_100)) * EpAt(e, q, m[5])

\* Over the whole valid range (yardline_100 in 1..99; the spot after a
\* conversion depends on ydstogo only through min(6, ydstogo + 1)) every
\* yardline handed to the EP model lies in 1..99.
YardlinesInRange ==
  \A yl \in 1..99 : \A togo \in 1..MaxTogo :
    \A i \in 1..5 :
      ModelYardlines([yardline_100 |-> yl, ydstogo |-> togo])[i] \in 1..99

\* C25 as stated: a simulation makes six EP evaluations, each with the
\* yardline of the side that has the ball, within 1..99.
C25_SixEvaluations ==
  ev.op = "simulate" =>
    /\ Len(EpCalls(Features(ev.qs[1]))) = 6
    /\ PossessionView(ev.body[1], files[<<"ep_model", 1>>], ev.qs[1])

\* C25: a simulation makes five EP evaluations (conversion made, conversion
\* failed, punt, kickoff after a made field goal, missed field goal); in each
\* the yardline passed to the EP model is the offense-view yardline when
\* possession is retained and 100 minus it when possession has flipped, and
\* for every valid query that value lies in 1..99.
C25_PossessionView ==
  /\ YardlinesInRange
  /\ ev.op = "simulate" =>
       /\ Len(EpCalls(Features(ev.qs[1]))) = 5
       /\ PossessionView(ev.body[1], files[<<"ep_model", 1>>], ev.qs[1])

\* A long conversion from yardline 99: the EP model is asked at 99 (the cap)
\* with the ball kept, and at 1, 39, 25 and 8 with the ball lost.
C25_Witness ==
  /\ ev.op = "simulate"
  /\ ev.qs[1].yardline_100 = 99 /\ ev.qs[1].ydstogo = 8
  /\ ModelYardlines(Features(ev.qs[1])) = <<99, 1, 39, 25, 8>>
  /\ EpOf(ev.body[1], "PUNT") = 100 * EpAt(files[<<"ep_model", 1>>], ev.qs[1], 39)

\* The possession flag the simulation gives each action.
FlagOf(a) == IF a = "GO" THEN 1 ELSE 0

\* The win probability blended from classifier probability prob, for the
\* score differential sd and possession flag flag, clipped to 0.01 .. 0.99.
Blend(prob, sd, flag) ==
  Clip(14 * prob + 3 * (SigmoidBias(sd) + 2 * (IF flag = 1 THEN 600 ELSE -600) + 10000),
       2000, 198000)

\* C26: for each of the three actions the 12-feature vector given to the
\* classifier carries the original query's down, distance, field position,
\* quarter, clock, timeouts, home flag and team strengths; only slot 6
\* (score_diff + 0.2 * EP of the action) and slot 10 (possession: 1 for GO, 0
\* for PUNT and FG) depend on the action, and the action's win probability is
\* the one blended from the classifier's answer on that vector.
C26_WpVector ==
  ev.op = "simulate" =>
    LET q == ev.qs[1]
        resp == ev.body[1]
        w == files[<<"wp_model", 1>>]
    IN \A a \in {"GO", "PUNT", "FG"} :
         LET x == WpVector(Features(q), EpOf(resp, a), FlagOf(a))
         IN /\ Len(x) = 12
            /\ <<x[1], x[2], x[3], x[4], x[5], x[7], x[8], x[9], x[11], x[12]>>
                 = <<q.down, q.ydstogo, q.yardline_100, q.qtr, q.time_remaining,
                     q.offense_timeouts, q.defense_timeouts, Home01(q.home),
                     OrZero(q.team_strength_off), OrZero(q.team_strength_def)>>
            /\ x[6] = 1500000 * q.score_diff + EpOf(resp, a)
            /\ x[10] = FlagOf(a)
            /\ WpOf(resp, a) = Blend(PredictProba(w, x, x[6]), q.score_diff, FlagOf(a))

\* A simulation where the three vectors differ in both slots: the EP values
\* of the three actions are pairwise distinct, and the classifier that looks
\* at the possession flag alone separates GO from PUNT and FG.
C26_Witness ==
  /\ ev.op = "simulate"
  /\ files[<<"wp_model", 1>>] = 2
  /\ EpOf(ev.body[1], "GO") # EpOf(ev.body[1], "PUNT")
  /\ EpOf(ev.body[1], "PUNT") # EpOf(ev.body[1], "FG")
  /\ EpOf(ev.body[1], "GO") # EpOf(ev.body[1], "FG")
  /\ WpOf(ev.body[1], "GO") < WpOf(ev.body[1], "PUNT")
  /\ WpOf(ev.body[1], "PUNT") = WpOf(ev.body[1], "FG")

\* One step of the failure contract. A key enters the cache only in a request
\* that loaded both artifacts of one stored version and ran the simulator; a
\* request ending in not-found leaves the cache and the request log as they
\* were and its query uncached; and the identical request straight after a
\* not-found request again goes to the model store.
C27_Step ==
  /\ (\E q \in InputQs : ~HasKey(cache, Key(q)) /\ HasKey(cache', Key(q))) =>
       /\ ev'.op \in {"recommend", "bulk"}
       /\ ev'.sim = TRUE
       /\ \E v \in Versions :
            /\ BothArtifacts(files, v)
            /\ \E i \in 1..(Len(ev'.loads) - 1) :
                 ev'.loads[i] = <<"ep_model", v>> /\ ev'.loads[i + 1] = <<"wp_model", v>>
  /\ (Handled("recommend") /\ ev'.status = "not_found") =>
       /\ cache' = cache
       /\ requests' = requests
       /\ ~HasKey(cache', Key(ev'.qs[1]))
       /\ ev'.sim = FALSE
  /\ (Handled("bulk") /\ ev'.status = "not_found") =>
       /\ \A q \in InputQs : HasKey(cache', Key(q)) <=> HasKey(cache, Key(q))
       /\ requests' = requests
  /\ (/\ ev.op = "recommend" /\ ev.status = "not_found"
      /\ Handled("recommend") /\ ev'.qs = ev.qs /\ ev'.override = ev.override) =>
       /\ ev'.loads # <<>>
       /\ ev'.status = "ok" => ev'.sim = TRUE

\* C27: on a cache miss the cache is populated only after both artifacts were
\* loaded and the simulation ran; a request that fails with artifact not
\* found adds no cache entry and no request-log entry, so a later identical
\* request is again a cache miss.
C27_FailureLeavesState == [][C27_Step]_vars

\* A request failed with not-found after an earlier one had succeeded: the
\* cache and the log hold the earlier request's entry and nothing else.
C27_Witness ==
  /\ ev.op = "recommend" /\ ev.status = "not_found"
  /\ served = 2
  /\ Len(cache) = 1 /\ Len(requests) = 1
  /\ ~HasKey(cache, Key(ev.qs[1]))
  /\ requests[1].params_json # ev.qs[1]

\* C28: with no override, whenever the directory the model store reads and
\* training writes holds both artifacts of some version, the version the
\* serving layer resolves has both artifacts there, and a request without
\* override does not end in not-found; in every configuration of the
\* directory and also while a training run is between its two saves.
C28_LatestResolves ==
  (\E v \in Versions : BothArtifacts(files, v)) =>
    /\ BothArtifacts(files, ResolveVersion(NoOverride, files))
    /\ (ev.op = "recommend" /\ ev.override = NoOverride) => ev.status # "not_found"

\* C29: the EP model and the WP model a recommendation was computed from
\* were written by the same training run of the version loaded, also when a
\* training run publishing that version again is under way.
C29_ConsistentPair ==
  (ev.op = "recommend" /\ ev.status = "ok" /\ ev.sim = TRUE) =>
    /\ Len(ev.loads) = 2
    /\ ev.loads[1][2] = ev.loads[2][2]
    /\ files[<<"ep_model", ev.loads[1][2]>>] = files[<<"wp_model", ev.loads[2][2]>>]

\* The classifier's probability (in 1/10000) for the vector of action a.
ProbOf(resp, w, q, a) ==
  LET x == WpVector(Features(q), EpOf(resp, a), FlagOf(a))
  IN PredictProba(w, x, x[6])

\* C30: whenever the classifier's probability for GO's vector is at least its
\* probability for PUNT's and for FG's vectors the recommendation is GO; PUNT
\* or FG is recommended only when 0.7 times the classifier's probability for
\* that action exceeds 0.7 times its probability for GO by more than 0.036
\* (7200 in units of 1/200000).
C30_GoBias ==
  ev.op = "simulate" =>
    LET q == ev.qs[1]
        resp == ev.body[1]
        w == files[<<"wp_model", 1>>]
    IN /\ (/\ ProbOf(resp, w, q, "GO") >= ProbOf(resp, w, q, "PUNT")
           /\ ProbOf(resp, w, q, "GO") >= ProbOf(resp, w, q, "FG"))
            => resp.recommendation = "GO"
       /\ \A a \in {"PUNT", "FG"} :
            resp.recommendation = a =>
              14 * (ProbOf(resp, w, q, a) - ProbOf(resp, w, q, "GO")) > 7200

\* The classifier rates PUNT above GO, by less than the margin, and GO is
\* recommended all the same.
C30_Witness ==
  /\ ev.op = "simulate"
  /\ ProbOf(ev.body[1], files[<<"wp_model", 1>>], ev.qs[1], "PUNT")
       > ProbOf(ev.body[1], files[<<"wp_model", 1>>], ev.qs[1], "GO")
  /\ ev.body[1].recommendation = "GO"
  /\ WpOf(ev.body[1], "GO") > WpOf(ev.body[1], "PUNT")

====
